---------------------------- MODULE Spec2Model ----------------------------
(***************************************************************************)
(* A model of the Flight SQL test server (test/integration/flight_server.py)*)
(* and of the mock control plane (test/integration/control_plane_server.py).*)
(*                                                                         *)
(* Byte buffers (Python bytes) are sequences of integers 0..255.  Python    *)
(* str values are sequences of Unicode code points; bytes.decode("utf-8")   *)
(* and str.encode("utf-8") convert between the two.                         *)
(***************************************************************************)
EXTENDS Integers, Sequences, FiniteSets, TLC

VARIABLES
    conn,          \* self.conn: the tables of the shared engine connection
    arrow_tables,  \* self.arrow_tables: the fixture table map
    request,       \* the request served last
    response,      \* what that request returned or raised
    executed,      \* the SQL texts that request submitted to self.conn.execute
    planned,       \* the FlightInfo the immediately preceding request returned
    fetchOf,       \* the FlightInfo whose ticket the last DoGet redeemed
    thr,           \* concurrent handlers: each one's position and request
    cpRequest,     \* control plane: the POST served last
    cpResponse,    \* control plane: the HTTP response sent for it
    rwQuery,       \* rewrite check: the query under test
    rwOnce,        \* rewrite check: _rewrite_query(rwQuery)
    rwTwice,       \* rewrite check: _rewrite_query(rwOnce)
    dec            \* wire decoder: the call under way and its position

vars == <<conn, arrow_tables, request, response, executed, planned, fetchOf,
          thr, cpRequest, cpResponse, rwQuery, rwOnce, rwTwice, dec>>

-----------------------------------------------------------------------------
(* Text literals.  S("abc") is the code point sequence of the ASCII text. *)

Ascii ==
    " !\"#$%&'()*+,-./0123456789:;<=>?@ABCDEFGHIJKLMNOPQRSTUVWXYZ[\\]^_ abcdefghijklmnopqrstuvwxyz{|}~"

\* the code points 32..126 without the backquote (96), whose place in Ascii
\* a blank holds
S(s) ==
    [i \in 1..Len(s) |->
        CHOOSE k \in 32..126 :
            k # 96 /\ SubSeq(Ascii, k - 31, k - 31) = SubSeq(s, i, i)]

(* The string literals of the source. *)

LitFROM == S("FROM")

LitJOIN == S("JOIN")

LitFromSp == S("FROM ")

LitDot == S(".")

LitStar == S("*")

LitZero == S("0")

LitOne == S("1")

TicketQuery == S("QUERY:")

TicketDbSchemas == S("CMD:GET_DB_SCHEMAS:")

TicketTables == S("CMD:GET_TABLES:")

TicketCatalogs == S("CMD:GET_CATALOGS")

TicketTableTypes == S("CMD:GET_TABLE_TYPES")

LitMain == S("main")

LitMemory == S("memory")

LitTABLE == S("TABLE")

LitVIEW == S("VIEW")

LitEmpty == S("")

LitBearer == S("Bearer ")

LitNonexistentDb == S("nonexistent_db")

LitSELECT == S("SELECT")

LitLIMIT == S("LIMIT")

LitCROSS == S("CROSS")

LitCREATE == S("CREATE")

LitAS == S("AS")

LitDROP == S("DROP")

LitSelectStarFrom == S("SELECT * FROM ")

LitLimit0 == S(" LIMIT 0")

LitTest == S("test")

LitAlt == S("alt")

\* Python None where a str or bytes value is expected: no text holds -1
None == <<-1>>

Min2(a, b) == IF a < b THEN a ELSE b

\* bytes/str slicing data[a:b] with 0-based, end-exclusive, clamped indices
Slice(data, a, b) == SubSeq(data, Min2(a, Len(data)) + 1, Min2(b, Len(data)))

\* needle in data (bytes containment)
Contains(data, needle) ==
    \E i \in 0..(Len(data) - Len(needle)) :
        SubSeq(data, i + 1, i + Len(needle)) = needle

\* data.startswith(prefix)
StartsWith(data, prefix) ==
    /\ Len(data) >= Len(prefix)
    /\ SubSeq(data, 1, Len(prefix)) = prefix

-----------------------------------------------------------------------------
(* UTF-8.  Utf8Decode(b) is <<TRUE, code points>> or <<FALSE, <<>>>> where  *)
(* bytes.decode("utf-8") raises UnicodeDecodeError.                         *)

IsCont(b) == b >= 128 /\ b <= 191

\* F(lo) \o F(lo + 1) \o ... \o F(hi)
RECURSIVE ConcatRange(_, _, _)
ConcatRange(F(_), lo, hi) ==
    IF lo > hi THEN <<>>
    ELSE IF lo = hi THEN F(lo)
    ELSE LET mid == (lo + hi) \div 2
         IN  ConcatRange(F, lo, mid) \o ConcatRange(F, mid + 1, hi)

\* the continuation bytes a lead byte announces; -1 for a byte that starts
\* no character
Utf8Need(b0) ==
    IF b0 < 128 THEN 0
    ELSE IF b0 >= 194 /\ b0 <= 223 THEN 1
    ELSE IF b0 >= 224 /\ b0 <= 239 THEN 2
    ELSE IF b0 >= 240 /\ b0 <= 244 THEN 3
    ELSE -1

\* a well-formed character starts at position i
Utf8LeadOk(b, i) ==
    LET b0 == b[i]
        k  == Utf8Need(b0)
    IN  /\ k >= 0
        /\ i + k <= Len(b)
        /\ \A j \in 1..k : IsCont(b[i + j])
        /\ (b0 = 224 => b[i + 1] >= 160)
        /\ (b0 = 237 => b[i + 1] <= 159)
        /\ (b0 = 240 => b[i + 1] >= 144)
        /\ (b0 = 244 => b[i + 1] <= 143)

\* the continuation byte at position j belongs to the character before it
Utf8Covered(b, j) ==
    \E d \in 1..3 :
        /\ j - d >= 1
        /\ ~IsCont(b[j - d])
        /\ Utf8Need(b[j - d]) >= d
        /\ \A e \in 1..(d - 1) : IsCont(b[j - e])

Utf8Valid(b) ==
    \A i \in 1..Len(b) :
        IF IsCont(b[i]) THEN Utf8Covered(b, i) ELSE Utf8LeadOk(b, i)

\* the code point of the character that starts at position i
Utf8CodePoint(b, i) ==
    LET b0 == b[i]
    IN  IF b0 < 128 THEN b0
        ELSE IF b0 <= 223 THEN (b0 - 192) * 64 + (b[i + 1] - 128)
        ELSE IF b0 <= 239
        THEN (b0 - 224) * 4096 + (b[i + 1] - 128) * 64 + (b[i + 2] - 128)
        ELSE (b0 - 240) * 262144 + (b[i + 1] - 128) * 4096
             + (b[i + 2] - 128) * 64 + (b[i + 3] - 128)

\* bytes.decode("utf-8")
Utf8Decode(b) ==
    LET piece(i) == IF IsCont(b[i]) THEN <<>> ELSE <<Utf8CodePoint(b, i)>>
    IN  IF Utf8Valid(b) THEN <<TRUE, ConcatRange(piece, 1, Len(b))>>
        ELSE <<FALSE, <<>>>>

Utf8EncodeChar(c) ==
    IF c < 128 THEN <<c>>
    ELSE IF c < 2048 THEN <<192 + (c \div 64), 128 + (c % 64)>>
    ELSE IF c < 65536
    THEN <<224 + (c \div 4096), 128 + ((c \div 64) % 64), 128 + (c % 64)>>
    ELSE <<240 + (c \div 262144), 128 + ((c \div 4096) % 64),
           128 + ((c \div 64) % 64), 128 + (c % 64)>>

\* str.encode("utf-8")
Utf8Encode(s) ==
    LET piece(i) == Utf8EncodeChar(s[i])
    IN  ConcatRange(piece, 1, Len(s))

-----------------------------------------------------------------------------
(* Flight SQL command type URLs. *)

TYPE_URL_PREFIX == S("type.googleapis.com/arrow.flight.protocol.sql")

CMD_GET_CATALOGS == TYPE_URL_PREFIX \o S(".CommandGetCatalogs")

CMD_GET_DB_SCHEMAS == TYPE_URL_PREFIX \o S(".CommandGetDbSchemas")

CMD_GET_TABLES == TYPE_URL_PREFIX \o S(".CommandGetTables")

CMD_GET_TABLE_TYPES == TYPE_URL_PREFIX \o S(".CommandGetTableTypes")

CMD_STATEMENT_QUERY == TYPE_URL_PREFIX \o S(".CommandStatementQuery")

CMD_PREPARED_STATEMENT == TYPE_URL_PREFIX \o S(".CommandPreparedStatementQuery")

\* a recognizer that wants the type URL prefix at the start of the buffer
IsFlightSqlCommandAtStart(command) == StartsWith(command, TYPE_URL_PREFIX)

\* _is_flight_sql_command
IsFlightSqlCommand(command) == Contains(command, TYPE_URL_PREFIX)

CommandTypes ==
    <<CMD_GET_CATALOGS, CMD_GET_DB_SCHEMAS, CMD_GET_TABLES, CMD_GET_TABLE_TYPES,
      CMD_STATEMENT_QUERY, CMD_PREPARED_STATEMENT>>

\* the positions in the list of type URLs whose URL the buffer holds
FoundTypes(command, types) ==
    {k \in 1..Len(types) : Contains(command, types[k])}

FirstFound(types, found) ==
    IF found = {} THEN <<>>
    ELSE types[CHOOSE k \in found : \A j \in found : k <= j]

\* _get_command_type: the first of the six type URLs found in the buffer
GetCommandTypeIn(command, types) == FirstFound(types, FoundTypes(command, types))

GetCommandType(command) == GetCommandTypeIn(command, CommandTypes)

-----------------------------------------------------------------------------
(* Wire decoder. *)

Pow2(n) == 2 ^ n

\* _read_varint: <<value, new_idx>>, idx 0-based
RECURSIVE ReadVarintLoop(_, _, _, _)
ReadVarintLoop(data, idx, value, shift) ==
    IF idx < Len(data)
    THEN LET byte == data[idx + 1]
             v    == value + (byte % 128) * Pow2(shift)
         IN  IF byte < 128 THEN <<v, idx + 1>>
             ELSE ReadVarintLoop(data, idx + 1, v, shift + 7)
    ELSE <<value, idx>>

ReadVarint(data, idx) == ReadVarintLoop(data, idx, 0, 0)

(* The scanning loop of _extract_inner_value, from read index idx.  tag is  *)
(* the byte at idx and rv the varint read after it: field_num is tag >> 3,  *)
(* wire_type is tag & 0x07.                                                 *)
RECURSIVE ExtractInnerLoop(_, _)
ExtractInnerField(command, tag, rv) ==
    IF tag % 8 = 2
    THEN IF tag \div 8 = 2
         THEN Slice(command, rv[2], rv[2] + rv[1])
         ELSE ExtractInnerLoop(command, rv[2] + rv[1])
    ELSE IF tag % 8 = 0
    THEN ExtractInnerLoop(command, rv[2])
    ELSE <<>>

ExtractInnerLoop(command, idx) ==
    IF idx < Len(command)
    THEN ExtractInnerField(command, command[idx + 1], ReadVarint(command, idx + 1))
    ELSE <<>>

\* _extract_inner_value
ExtractInnerValue(command) == ExtractInnerLoop(command, 0)

\* field_value.decode("utf-8") inside the try: "" when it raises
DecodeOrEmpty(d) == IF d[1] THEN d[2] ELSE <<>>

\* the scanning loop of _extract_string_field, from read index idx
RECURSIVE ExtractStringLoop(_, _, _)
ExtractStringAt(data, target_field_num, tag, rv) ==
    IF tag % 8 = 2
    THEN IF tag \div 8 = target_field_num
         THEN DecodeOrEmpty(Utf8Decode(Slice(data, rv[2], rv[2] + rv[1])))
         ELSE ExtractStringLoop(data, target_field_num, rv[2] + rv[1])
    ELSE IF tag % 8 = 0
    THEN ExtractStringLoop(data, target_field_num, rv[2])
    ELSE <<>>

ExtractStringLoop(data, target_field_num, idx) ==
    IF idx < Len(data)
    THEN ExtractStringAt(data, target_field_num, data[idx + 1],
                         ReadVarint(data, idx + 1))
    ELSE <<>>

\* _extract_string_field
ExtractStringField(data, target_field_num) ==
    ExtractStringLoop(data, target_field_num, 0)

\* field 1 of the inner message, "" when there is no inner message
FirstStringField(inner_value) ==
    IF inner_value = <<>> THEN <<>> ELSE ExtractStringField(inner_value, 1)

\* _extract_query_from_statement_command
ExtractQueryFromStatementCommand(command) ==
    FirstStringField(ExtractInnerValue(command))

\* _extract_catalog_filter_from_command
ExtractCatalogFilterFromCommand(command) ==
    FirstStringField(ExtractInnerValue(command))

-----------------------------------------------------------------------------
(* Regular expressions of the re module on str, written out.  Indices are   *)
(* 0-based read positions, as in re.                                        *)

\* \w on str for code points below 256 (Unicode alphanumerics and "_")
IsWord(c) ==
    \/ c \in 48..57 \/ c \in 65..90 \/ c \in 97..122 \/ c = 95
    \/ c \in {170, 178, 179, 181, 185, 186, 188, 189, 190}
    \/ (c \in 192..255 /\ c # 215 /\ c # 247)

\* \s on str for code points below 256
IsSpace(c) == c \in {9, 10, 11, 12, 13, 28, 29, 30, 31, 32, 133, 160}

\* one pattern letter under re.IGNORECASE; k is an upper-case ASCII letter
CaseEq(c, k) == c = k \/ c = k + 32 \/ (k = 73 /\ c \in {304, 305})

\* the literal word kw (upper case) matches at position i, ignoring case
KeywordAt(q, i, kw) ==
    /\ i + Len(kw) <= Len(q)
    /\ \A k \in 1..Len(kw) : CaseEq(q[i + k], kw[k])

\* the end of the longest run from i of code points satisfying P
SkipWhile(P(_), q, i) ==
    IF i >= Len(q) THEN i
    ELSE CHOOSE j \in i..Len(q) :
            /\ \A k \in (i + 1)..j : P(q[k])
            /\ (j = Len(q) \/ ~P(q[j + 1]))

\* "?\w+"? at position i: the end position, or -1 when it does not match.
\* a is the position after the optional opening quote, b the end of \w+.
IdentClose(q, a, b) ==
    IF b = a THEN -1
    ELSE IF b < Len(q) /\ q[b + 1] = 34 THEN b + 1 ELSE b

IdentFrom(q, a) == IdentClose(q, a, SkipWhile(IsWord, q, a))

IdentEnd(q, i) == IdentFrom(q, IF i < Len(q) /\ q[i + 1] = 34 THEN i + 1 ELSE i)

\* \. right after an identifier that ended at e
DotAt(q, e) == e >= 0 /\ e < Len(q) /\ q[e + 1] = 46

(* (?:FROM|JOIN)\s+("?\w+"?)\.("?\w+"?)\.("?\w+"?) at position i:          *)
(* <<end, group 2, group 3>>, or <<-1>> when it does not match.  The parts  *)
(* of the pattern are matched one after the other: e1, e2 and e3 are the    *)
(* ends of the three identifiers.                                           *)
ThreePartGroups(q, e1, e2, e3) ==
    IF e3 < 0 THEN <<-1>>
    ELSE <<e3, Slice(q, e1 + 1, e2), Slice(q, e2 + 1, e3)>>

ThreePartThird(q, e1, e2) ==
    IF DotAt(q, e2) THEN ThreePartGroups(q, e1, e2, IdentEnd(q, e2 + 1))
    ELSE <<-1>>

ThreePartSecond(q, e1) ==
    IF DotAt(q, e1) THEN ThreePartThird(q, e1, IdentEnd(q, e1 + 1))
    ELSE <<-1>>

ThreePartFirst(q, k, s1) ==
    IF s1 = k THEN <<-1>> ELSE ThreePartSecond(q, IdentEnd(q, s1))

ThreePartAt(q, i) ==
    IF KeywordAt(q, i, LitFROM) \/ KeywordAt(q, i, LitJOIN)
    THEN ThreePartFirst(q, i + 4, SkipWhile(IsSpace, q, i + 4))
    ELSE <<-1>>

\* a replacement that keeps three parts
ReplaceMatchThreeParts(g2, g3) == LitFromSp \o g2 \o LitDot \o g2 \o LitDot \o g3

\* replace_match: f'FROM {m.group(2)}.{m.group(3)}'
ReplaceMatch(g2, g3) == LitFromSp \o g2 \o LitDot \o g3

\* the matches of the pattern from position i on, as <<start, match>>
MatchesFrom(q, i) ==
    {p \in {<<j, ThreePartAt(q, j)>> : j \in i..(Len(q) - 1)} : p[2][1] >= 0}

\* the leftmost of a set of <<start, ...>> tuples
Leftmost(ms) == CHOOSE p \in ms : \A o \in ms : p[1] <= o[1]

\* re.sub from position i: every non-overlapping match, leftmost first
RECURSIVE RewriteFrom(_, _)
RewriteMatch(q, i, p) ==
    Slice(q, i, p[1]) \o ReplaceMatch(p[2][2], p[2][3]) \o RewriteFrom(q, p[2][1])

RewriteNext(q, i, ms) ==
    IF ms = {} THEN Slice(q, i, Len(q)) ELSE RewriteMatch(q, i, Leftmost(ms))

RewriteFrom(q, i) == RewriteNext(q, i, MatchesFrom(q, i))

\* _rewrite_query
RewriteQuery(query) == RewriteFrom(query, 0)

NotSpaceSemi(c) == ~IsSpace(c) /\ c # 59

\* FROM\s+([^\s;]+) at position i: <<start, end>> of group 1, or <<-1>>
FromRefGroup(s1, e1) == IF e1 > s1 THEN <<s1, e1>> ELSE <<-1>>

FromRefSpaces(q, k, s1) ==
    IF s1 > k THEN FromRefGroup(s1, SkipWhile(NotSpaceSemi, q, s1)) ELSE <<-1>>

FromRefAt(q, i) ==
    IF KeywordAt(q, i, LitFROM)
    THEN FromRefSpaces(q, i + 4, SkipWhile(IsSpace, q, i + 4))
    ELSE <<-1>>

FromMatches(q) == {p \in {FromRefAt(q, j) : j \in 0..(Len(q) - 1)} : p[1] >= 0}

FromGroup(q, p) == Slice(q, p[1], p[2])

FromLeftmost(q, ms) == IF ms = {} THEN None ELSE FromGroup(q, Leftmost(ms))

\* re.search(r"FROM\s+([^\s;]+)"): group 1 of the leftmost match, or None
FromSearch(q) == FromLeftmost(q, FromMatches(q))

\* str.replace('"', "")
DropQuotes(s) == SelectSeq(s, LAMBDA c : c # 34)

\* the position of the last "." of s, or 0
LastDot(s) ==
    CHOOSE k \in 0..Len(s) :
        (k = 0 \/ s[k] = 46) /\ \A j \in (k + 1)..Len(s) : s[j] # 46

\* str.split(".")[-1]
LastSegment(s) == SubSeq(s, LastDot(s) + 1, Len(s))

\* str.strip(): the text without the leading and trailing characters in P
Strip(P(_), s) ==
    SubSeq(s,
           CHOOSE a \in 1..(Len(s) + 1) :
               (a > Len(s) \/ ~P(s[a])) /\ \A k \in 1..(a - 1) : P(s[k]),
           CHOOSE b \in 0..Len(s) :
               (b = 0 \/ ~P(s[b])) /\ \A k \in (b + 1)..Len(s) : P(s[k]))

IsSemi(c) == c = 59

\* match.group(1).strip().strip(";").replace('"', "").split(".")[-1]
FixtureNameOfGroup(g) ==
    IF g = None THEN None
    ELSE LastSegment(DropQuotes(Strip(IsSemi, Strip(IsSpace, g))))

\* the table name _arrow_table_for_query looks up, or None
FixtureNameOf(query) == FixtureNameOfGroup(FromSearch(query))

\* a lookup that never finds a fixture
DictGetNothing(tables, n) == None

\* dict.get: the key, or None
DictGet(tables, n) == IF n # None /\ n \in DOMAIN tables THEN n ELSE None

\* _arrow_table_for_query: the fixture name, or None
ArrowTableForQuery(tables, query) == DictGet(tables, FixtureNameOf(query))

-----------------------------------------------------------------------------
(* The embedded engine behind self.conn, for the statements the model's     *)
(* clients and the server itself submit.  A table is a record               *)
(* [name, schema, rows]; conn is the sequence of tables in creation order.  *)

Col(n, ty) == <<n, ty>>

\* _setup_test_data and the empty stand-ins of _setup_arrow_test_tables
InitialConn ==
    << [name |-> S("test_data"), rows |-> 1,
        schema |-> <<Col("value", "int32")>>],
       [name |-> S("numbers"), rows |-> 10,
        schema |-> <<Col("id", "int64"), Col("name", "string")>>],
       [name |-> S("types_test"), rows |-> 1,
        schema |-> <<Col("int_col", "int32"), Col("float_col", "double"),
                     Col("str_col", "string"), Col("bool_col", "bool"),
                     Col("date_col", "date32")>>],
       [name |-> S("decimal_test"), rows |-> 1,
        schema |-> <<Col("dec_p4", "decimal(4,0)"), Col("dec_p9", "decimal(9,0)"),
                     Col("dec_p18", "decimal(18,0)"),
                     Col("dec_p38", "decimal(38,0)"),
                     Col("dec_p10s2", "decimal(10,2)")>>],
       [name |-> S("nested_test"), rows |-> 1,
        schema |-> <<Col("int_list", "list<int32>"),
                     Col("empty_list", "list<int32>"),
                     Col("simple_struct", "struct<a:int32,b:string>"),
                     Col("struct_with_null", "struct<a:int32,b:string>"),
                     Col("str_int_map", "map<string,int32>"),
                     Col("map_with_null", "map<string,int32>")>>],
       [name |-> S("dictionary_test"), rows |-> 0,
        schema |-> <<Col("dict_col", "string")>>],
       [name |-> S("run_end_test"), rows |-> 0,
        schema |-> <<Col("ree_col", "int64")>>] >>

\* _build_run_end_encoded_array: the column type the installed pyarrow gives
ReeColumnTypes == {"run_end_encoded<int32,int64>", "int64"}

\* _setup_arrow_test_tables: the fixture map
InitialArrowTables(ree) ==
    (S("dictionary_test") :>
        [schema |-> <<Col("dict_col", "dictionary<int8,string>")>>,
         num_rows |-> 5])
    @@ (S("run_end_test") :>
        [schema |-> <<Col("ree_col", ree)>>, num_rows |-> 6])

NotSpace(c) == ~IsSpace(c)

\* the whitespace-separated words of a statement, from position i on
RECURSIVE WordsFrom(_, _)
WordsNext(q, a, b) == <<Slice(q, a, b)>> \o WordsFrom(q, b)

WordsAt(q, a) ==
    IF a >= Len(q) THEN <<>> ELSE WordsNext(q, a, SkipWhile(NotSpace, q, a))

WordsFrom(q, i) == WordsAt(q, SkipWhile(IsSpace, q, i))

Words(q) == WordsFrom(q, 0)

\* an SQL keyword, whatever its case
IsKw(w, kw) == Len(w) = Len(kw) /\ \A k \in 1..Len(kw) : w[k] \in {kw[k], kw[k] + 32}

\* the dot-separated parts of a table reference
RECURSIVE SplitDots(_)
SplitAt(s, k) == <<SubSeq(s, 1, k - 1)>> \o SplitDots(SubSeq(s, k + 1, Len(s)))

SplitDots(s) ==
    IF \E k \in 1..Len(s) : s[k] = 46
    THEN SplitAt(s, CHOOSE k \in 1..Len(s) :
                        s[k] = 46 /\ \A j \in 1..(k - 1) : s[j] # 46)
    ELSE <<s>>

\* one identifier of a reference: bare word characters, or the same in quotes
Unquote(p) ==
    IF Len(p) >= 3 /\ p[1] = 34 /\ p[Len(p)] = 34
       /\ \A k \in 2..(Len(p) - 1) : IsWord(p[k])
    THEN SubSeq(p, 2, Len(p) - 1)
    ELSE IF Len(p) >= 1 /\ \A k \in 1..Len(p) : IsWord(p[k]) THEN p
    ELSE None

UnquoteAll(parts) == [k \in 1..Len(parts) |-> Unquote(parts[k])]

\* the table a reference names in the engine's one catalog ("memory") and
\* schema ("main"), or None: name, main.name or memory.main.name
ResolveIds(ids) ==
    IF \E k \in 1..Len(ids) : ids[k] = None THEN None
    ELSE IF Len(ids) = 1 THEN ids[1]
    ELSE IF Len(ids) = 2 /\ ids[1] = LitMain THEN ids[2]
    ELSE IF Len(ids) = 3 /\ ids[1] = LitMemory /\ ids[2] = LitMain
    THEN ids[3]
    ELSE None

ResolveRef(ref) == ResolveIds(UnquoteAll(SplitDots(ref)))

HasTable(c, n) == \E k \in 1..Len(c) : c[k].name = n

TableOf(c, n) == c[CHOOSE k \in 1..Len(c) : c[k].name = n]

WithoutTable(c, n) == SelectSeq(c, LAMBDA tb : tb.name # n)

TableNames(c) == [k \in 1..Len(c) |-> c[k].name]

ExecError(c) ==
    [ok |-> FALSE, schema |-> <<>>, num_rows |-> 0, names |-> <<>>, conn |-> c]

ExecResult(c, schema, num_rows, names) ==
    [ok |-> TRUE, schema |-> schema, num_rows |-> num_rows, names |-> names,
     conn |-> c]

\* the statement of do_get's GetTables branch that lists the base tables
ListTablesSql ==
    S("SELECT table_name FROM information_schema.tables ")
    \o S("WHERE table_schema = 'main' AND table_type = 'BASE TABLE'")

\* the statement of do_get's GetTables branch that probes one table's schema
ProbeSql(table_name) == LitSelectStarFrom \o table_name \o LitLimit0

\* the columns a projection selects: "*" or one column name
Project(schema, proj) ==
    IF proj = LitStar THEN schema
    ELSE SelectSeq(schema, LAMBDA col : S(col[1]) = proj)

\* the reference names a table of the connection
Known(c, t) == t # None /\ HasTable(c, t)

\* SELECT table_name FROM information_schema.tables ...
ExecListTables(c) ==
    ExecResult(c, <<Col("table_name", "string")>>, Len(c), TableNames(c))

\* a projection that selects no column of the table is a binder error
ExecProjected(c, schema, num_rows) ==
    IF schema # <<>> THEN ExecResult(c, schema, num_rows, <<>>) ELSE ExecError(c)

\* SELECT proj FROM t
ExecSelect(c, proj, t) ==
    IF Known(c, t)
    THEN ExecProjected(c, Project(TableOf(c, t).schema, proj), TableOf(c, t).rows)
    ELSE ExecError(c)

\* SELECT * FROM t LIMIT 0
ExecLimit0(c, t) ==
    IF Known(c, t) THEN ExecResult(c, TableOf(c, t).schema, 0, <<>>)
    ELSE ExecError(c)

\* SELECT * FROM t CROSS JOIN u
ExecCrossJoin(c, t, u) ==
    IF Known(c, t) /\ Known(c, u)
    THEN ExecResult(c, TableOf(c, t).schema \o TableOf(c, u).schema,
                    TableOf(c, t).rows * TableOf(c, u).rows, <<>>)
    ELSE ExecError(c)

\* CREATE TABLE t AS SELECT 1
ExecCreate(c, t) ==
    IF t # None /\ ~HasTable(c, t)
    THEN ExecResult(Append(c, [name |-> t, rows |-> 1,
                               schema |-> <<Col("1", "int32")>>]),
                    <<Col("Count", "int64")>>, 1, <<>>)
    ELSE ExecError(c)

\* DROP TABLE t
ExecDrop(c, t) ==
    IF Known(c, t)
    THEN ExecResult(WithoutTable(c, t), <<Col("Success", "bool")>>, 0, <<>>)
    ELSE ExecError(c)

\* the statement, by its words w
ExecuteWords(c, sql, w) ==
    IF sql = ListTablesSql THEN ExecListTables(c)
    ELSE IF Len(w) = 4 /\ IsKw(w[1], LitSELECT) /\ IsKw(w[3], LitFROM)
    THEN ExecSelect(c, w[2], ResolveRef(w[4]))
    ELSE IF Len(w) = 6 /\ IsKw(w[1], LitSELECT) /\ w[2] = LitStar
            /\ IsKw(w[3], LitFROM) /\ IsKw(w[5], LitLIMIT) /\ w[6] = LitZero
    THEN ExecLimit0(c, ResolveRef(w[4]))
    ELSE IF Len(w) = 7 /\ IsKw(w[1], LitSELECT) /\ w[2] = LitStar
            /\ IsKw(w[3], LitFROM) /\ IsKw(w[5], LitCROSS) /\ IsKw(w[6], LitJOIN)
    THEN ExecCrossJoin(c, ResolveRef(w[4]), ResolveRef(w[7]))
    ELSE IF Len(w) = 6 /\ IsKw(w[1], LitCREATE) /\ IsKw(w[2], LitTABLE)
            /\ IsKw(w[4], LitAS) /\ IsKw(w[5], LitSELECT) /\ w[6] = LitOne
    THEN ExecCreate(c, ResolveRef(w[3]))
    ELSE IF Len(w) = 3 /\ IsKw(w[1], LitDROP) /\ IsKw(w[2], LitTABLE)
    THEN ExecDrop(c, ResolveRef(w[3]))
    ELSE ExecError(c)

\* self.conn.execute(sql).fetch_arrow_table() / .fetchall()
Execute(c, sql) == ExecuteWords(c, sql, Words(sql))

-----------------------------------------------------------------------------
(* What a request handler returns or raises. *)

FlightInfo(schema, ticket, total_records) ==
    [kind |-> "info", schema |-> schema, ticket |-> ticket,
     total_records |-> total_records, num_rows |-> -1, rows |-> <<>>,
     source |-> <<"none">>, error |-> ""]

\* flight.RecordBatchStream(table)
RecordBatchStream(schema, num_rows, rows, source) ==
    [kind |-> "stream", schema |-> schema, ticket |-> <<>>,
     total_records |-> -1, num_rows |-> num_rows, rows |-> rows,
     source |-> source, error |-> ""]

\* an exception leaving the handler
Raised(error) ==
    [kind |-> "error", schema |-> <<>>, ticket |-> <<>>, total_records |-> -1,
     num_rows |-> -1, rows |-> <<>>, source |-> <<"none">>, error |-> error]

NoInfo == Raised("none")

\* a handler's outcome: its response, the connection it leaves, and the
\* statements it passed to self.conn.execute, in order
Outcome(resp, c, stmts) == [resp |-> resp, conn |-> c, executed |-> stmts]

AllCatalogs == <<LitTest, LitAlt>>

(* _get_query_info, in the order of its statements: the rewritten query,   *)
(* the ticket, the fixture lookup and, without a fixture, the engine.       *)
\* a planner that submits a failed statement a second time
QueryInfoOfResultRetried(query, ticket, result) ==
    IF result.ok
    THEN Outcome(FlightInfo(result.schema, ticket, result.num_rows),
                 result.conn, <<query>>)
    ELSE Outcome(Raised("Failed to prepare query"), result.conn, <<query, query>>)

QueryInfoOfResult(query, ticket, result) ==
    IF result.ok
    THEN Outcome(FlightInfo(result.schema, ticket, result.num_rows),
                 result.conn, <<query>>)
    ELSE Outcome(Raised("Failed to prepare query"), result.conn, <<query>>)

QueryInfoOfTable(c, at, query, ticket, arrow_table) ==
    IF arrow_table # None
    THEN Outcome(FlightInfo(at[arrow_table].schema, ticket,
                            at[arrow_table].num_rows), c, <<>>)
    ELSE QueryInfoOfResult(query, ticket, Execute(c, query))

QueryInfoOfQuery(c, at, query) ==
    QueryInfoOfTable(c, at, query, TicketQuery \o Utf8Encode(query),
                     ArrowTableForQuery(at, query))

GetQueryInfo(c, at, query) == QueryInfoOfQuery(c, at, RewriteQuery(query))

DbSchemasSchema == <<Col("catalog_name", "string"), Col("db_schema_name", "string")>>

TablesSchema ==
    <<Col("catalog_name", "string"), Col("db_schema_name", "string"),
      Col("table_name", "string"), Col("table_type", "string"),
      Col("table_schema", "binary")>>

CatalogsSchema == <<Col("catalog_name", "string")>>

TableTypesSchema == <<Col("table_type", "string")>>

\* _get_db_schemas_info
GetDbSchemasInfo(catalog_filter) ==
    FlightInfo(DbSchemasSchema,
               TicketDbSchemas \o Utf8Encode(catalog_filter), -1)

\* _get_tables_info
GetTablesInfo(catalog_filter) ==
    FlightInfo(TablesSchema,
               TicketTables \o Utf8Encode(catalog_filter), -1)

\* _get_catalogs_info
GetCatalogsInfo == FlightInfo(CatalogsSchema, TicketCatalogs, -1)

\* _get_table_types_info
GetTableTypesInfo == FlightInfo(TableTypesSchema, TicketTableTypes, -1)

\* the tail of get_flight_info: the whole buffer as a plain SQL string
PlainSqlText(c, at, d) ==
    IF d[1] THEN GetQueryInfo(c, at, d[2])
    ELSE Outcome(Raised("Unknown command format"), c, <<>>)

PlainSqlInfo(c, at, command) == PlainSqlText(c, at, Utf8Decode(command))

\* the CommandStatementQuery branch: an empty query falls through to the tail
StatementInfo(c, at, command, query) ==
    IF query # <<>> THEN GetQueryInfo(c, at, query)
    ELSE PlainSqlInfo(c, at, command)

\* the branches of get_flight_info for a buffer that holds the URL prefix
FlightSqlInfo(c, at, command, cmd_type) ==
    IF cmd_type = CMD_GET_DB_SCHEMAS
    THEN Outcome(GetDbSchemasInfo(ExtractCatalogFilterFromCommand(command)), c, <<>>)
    ELSE IF cmd_type = CMD_GET_TABLES
    THEN Outcome(GetTablesInfo(ExtractCatalogFilterFromCommand(command)), c, <<>>)
    ELSE IF cmd_type = CMD_GET_CATALOGS THEN Outcome(GetCatalogsInfo, c, <<>>)
    ELSE IF cmd_type = CMD_GET_TABLE_TYPES THEN Outcome(GetTableTypesInfo, c, <<>>)
    ELSE IF cmd_type = CMD_STATEMENT_QUERY
    THEN StatementInfo(c, at, command, ExtractQueryFromStatementCommand(command))
    ELSE PlainSqlInfo(c, at, command)

\* get_flight_info
GetFlightInfo(c, at, command) ==
    IF IsFlightSqlCommand(command)
    THEN FlightSqlInfo(c, at, command, GetCommandType(command))
    ELSE PlainSqlInfo(c, at, command)

\* pa.table(...) of Python lists: an empty list gives a column of type null
InferredSchema(schema, num_rows) ==
    IF num_rows > 0 THEN schema
    ELSE [k \in 1..Len(schema) |-> Col(schema[k][1], "null")]

(* The two places of do_get that answer a query: the fixture when           *)
(* _arrow_table_for_query finds one, the engine's result otherwise.  err is *)
(* the error the client sees when the engine raises.                        *)
StreamOfResult(query, err, result) ==
    IF result.ok
    THEN Outcome(RecordBatchStream(result.schema, result.num_rows, <<>>,
                                   <<"engine", query>>), result.conn, <<query>>)
    ELSE Outcome(Raised(err), result.conn, <<query>>)

StreamOfTable(c, at, query, err, arrow_table) ==
    IF arrow_table # None
    THEN Outcome(RecordBatchStream(at[arrow_table].schema,
                                   at[arrow_table].num_rows, <<>>,
                                   <<"fixture", arrow_table>>), c, <<>>)
    ELSE StreamOfResult(query, err, Execute(c, query))

StreamOfQuery(c, at, query, err) ==
    StreamOfTable(c, at, query, err, ArrowTableForQuery(at, query))

\* do_get, QUERY: ticket
DoGetQueryText(c, at, d) ==
    IF ~d[1] THEN Outcome(Raised("UnicodeDecodeError"), c, <<>>)
    ELSE StreamOfQuery(c, at, RewriteQuery(d[2]), "engine error")

DoGetQuery(c, at, ticket_bytes) ==
    DoGetQueryText(c, at, Utf8Decode(Slice(ticket_bytes, 6, Len(ticket_bytes))))

\* a filter that is ignored
FilterCatalogsIgnored(catalog_filter) == AllCatalogs

\* catalogs = [c for c in all_catalogs if c == catalog_filter], or all
FilterCatalogs(catalog_filter) ==
    IF catalog_filter # <<>>
    THEN SelectSeq(AllCatalogs, LAMBDA cat : cat = catalog_filter)
    ELSE AllCatalogs

DbSchemasStream(c, catalogs) ==
    Outcome(RecordBatchStream(InferredSchema(DbSchemasSchema, Len(catalogs)),
                Len(catalogs),
                [k \in 1..Len(catalogs) |-> <<catalogs[k], LitMain>>],
                <<"listing">>), c, <<>>)

DoGetDbSchemasText(c, d) ==
    IF ~d[1] THEN Outcome(Raised("UnicodeDecodeError"), c, <<>>)
    ELSE DbSchemasStream(c, FilterCatalogs(d[2]))

\* do_get, CMD:GET_DB_SCHEMAS: ticket
DoGetDbSchemas(c, ticket_bytes) ==
    DoGetDbSchemasText(c, Utf8Decode(Slice(ticket_bytes, Len(TicketDbSchemas),
                                           Len(ticket_bytes))))

(* The loop of the GetTables branch over table_names[k..]: the serialized   *)
(* schemas, the statements executed, and whether every probe succeeded.     *)
RECURSIVE TableSchemas(_, _, _, _)
WithSchema(schema, stmts, rest) ==
    [rest EXCEPT !.schemas = <<<<"ipc", schema>>>> \o @,
                 !.executed = stmts \o @]

ProbedSchema(c, at, table_names, k, sql, probe) ==
    IF ~probe.ok THEN [ok |-> FALSE, schemas |-> <<>>, executed |-> <<sql>>]
    ELSE WithSchema(probe.schema, <<sql>>, TableSchemas(c, at, table_names, k + 1))

TableSchemas(c, at, table_names, k) ==
    IF k > Len(table_names)
    THEN [ok |-> TRUE, schemas |-> <<>>, executed |-> <<>>]
    ELSE IF table_names[k] \in DOMAIN at
    THEN WithSchema(at[table_names[k]].schema, <<>>,
                    TableSchemas(c, at, table_names, k + 1))
    ELSE ProbedSchema(c, at, table_names, k, ProbeSql(table_names[k]),
                      Execute(c, ProbeSql(table_names[k])))

\* a GetTables listing that ignores the catalog filter
TablesRowsUnfiltered(catalog_filter, names, schemas) ==
    [k \in 1..(Len(AllCatalogs) * Len(names)) |->
        <<AllCatalogs[((k - 1) \div Len(names)) + 1], LitMain,
          names[((k - 1) % Len(names)) + 1], LitTABLE,
          schemas[((k - 1) % Len(names)) + 1]>>]

TableRow(cat, table_name, table_schema) ==
    <<cat, LitMain, table_name, LitTABLE, table_schema>>

\* the rows of the GetTables stream: one catalog's, none, or every catalog's
TablesRows(catalog_filter, names, schemas) ==
    IF catalog_filter # <<>>
    THEN IF \E j \in 1..Len(AllCatalogs) : AllCatalogs[j] = catalog_filter
         THEN [k \in 1..Len(names) |-> TableRow(catalog_filter, names[k], schemas[k])]
         ELSE <<>>
    ELSE [k \in 1..(Len(AllCatalogs) * Len(names)) |->
            TableRow(AllCatalogs[((k - 1) \div Len(names)) + 1],
                     names[((k - 1) % Len(names)) + 1],
                     schemas[((k - 1) % Len(names)) + 1])]

TablesStream(c, stmts, rows) ==
    Outcome(RecordBatchStream(TablesSchema, Len(rows), rows, <<"listing">>),
            c, stmts)

TablesOfSchemas(c, catalog_filter, table_names, ts) ==
    IF ~ts.ok THEN Outcome(Raised("engine error"), c, <<ListTablesSql>> \o ts.executed)
    ELSE TablesStream(c, <<ListTablesSql>> \o ts.executed,
                      TablesRows(catalog_filter, table_names, ts.schemas))

TablesOfNames(c, at, catalog_filter, table_names) ==
    TablesOfSchemas(c, catalog_filter, table_names,
                    TableSchemas(c, at, table_names, 1))

DoGetTablesText(c, at, d) ==
    IF ~d[1] THEN Outcome(Raised("UnicodeDecodeError"), c, <<>>)
    ELSE TablesOfNames(c, at, d[2], Execute(c, ListTablesSql).names)

\* do_get, CMD:GET_TABLES: ticket
DoGetTables(c, at, ticket_bytes) ==
    DoGetTablesText(c, at, Utf8Decode(Slice(ticket_bytes, Len(TicketTables),
                                            Len(ticket_bytes))))

\* do_get, CMD:GET_CATALOGS ticket
DoGetCatalogs(c) ==
    Outcome(RecordBatchStream(CatalogsSchema, 1, <<<<LitEmpty>>>>, <<"listing">>),
            c, <<>>)

\* do_get, CMD:GET_TABLE_TYPES ticket
DoGetTableTypes(c) ==
    Outcome(RecordBatchStream(TableTypesSchema, 2,
                <<<<LitTABLE>>, <<LitVIEW>>>>, <<"listing">>), c, <<>>)

\* do_get, any other ticket: tried as a raw query
DoGetRawText(c, at, d) ==
    IF ~d[1] THEN Outcome(Raised("Unknown ticket"), c, <<>>)
    ELSE StreamOfQuery(c, at, d[2], "Unknown ticket")

DoGetRaw(c, at, ticket_bytes) == DoGetRawText(c, at, Utf8Decode(ticket_bytes))

\* do_get
DoGet(c, at, ticket_bytes) ==
    IF StartsWith(ticket_bytes, TicketQuery) THEN DoGetQuery(c, at, ticket_bytes)
    ELSE IF StartsWith(ticket_bytes, TicketDbSchemas)
    THEN DoGetDbSchemas(c, ticket_bytes)
    ELSE IF StartsWith(ticket_bytes, TicketTables)
    THEN DoGetTables(c, at, ticket_bytes)
    ELSE IF ticket_bytes = TicketCatalogs THEN DoGetCatalogs(c)
    ELSE IF ticket_bytes = TicketTableTypes THEN DoGetTableTypes(c)
    ELSE DoGetRaw(c, at, ticket_bytes)

-----------------------------------------------------------------------------
(* The requests the model's clients send. *)

\* a length-delimited protobuf field (lengths below 128 take one byte)
BytesField(field_num, value) == <<field_num * 8 + 2, Len(value)>> \o value

StrField(field_num, text) == BytesField(field_num, Utf8Encode(text))

\* google.protobuf.Any: field 1 = type_url, field 2 = value
AnyMsg(type_url, value) == BytesField(1, type_url) \o BytesField(2, value)

\* an Any whose empty value field is left out, as proto3 serializers do
AnyNoValue(type_url) == BytesField(1, type_url)

SqlNumbers == S("SELECT * FROM numbers")

SqlThreePart == S("SELECT id FROM \"test\".\"main\".\"numbers\"")

SqlDictionary == S("SELECT * FROM test.main.dictionary_test")

SqlRunEnd == S("SELECT * FROM run_end_test")

SqlJoinFixture == S("SELECT * FROM test_data CROSS JOIN main.dictionary_test")

SqlJoinThreePart == S("SELECT * FROM test.main.numbers CROSS JOIN alt.main.test_data")

SqlFourPart == S("SELECT * FROM x.memory.main.numbers")

SqlCreate == S("CREATE TABLE t2 AS SELECT 1")

SqlDrop == S("DROP TABLE t2")

SqlMissing == S("SELECT * FROM nosuch")

SqlNewTable == S("SELECT * FROM alt.main.t2")

ClientSqls ==
    {SqlNumbers, SqlThreePart, SqlDictionary, SqlRunEnd, SqlJoinFixture,
     SqlJoinThreePart, SqlFourPart, SqlCreate, SqlDrop, SqlMissing, SqlNewTable}

CatalogFilters == {LitEmpty, LitTest, LitAlt, S("zzz")}

\* CommandGetDbSchemas / CommandGetTables: field 1 = catalog, left out when empty
CatalogPayload(f) == IF f = <<>> THEN <<>> ELSE StrField(1, f)

\* a CommandGetTables with its other fields around the catalog
FullGetTables ==
    StrField(2, LitMain) \o StrField(1, LitAlt) \o <<40, 1>>

InvalidUtf8 == <<255, 254>>

MetadataCommands ==
    {AnyMsg(CMD_GET_CATALOGS, <<>>), AnyNoValue(CMD_GET_CATALOGS),
     AnyMsg(CMD_GET_TABLE_TYPES, <<>>), AnyMsg(CMD_GET_TABLES, FullGetTables)}
    \cup {AnyMsg(CMD_GET_DB_SCHEMAS, CatalogPayload(f)) : f \in CatalogFilters}
    \cup {AnyMsg(CMD_GET_TABLES, CatalogPayload(f)) : f \in CatalogFilters}

StatementCommands == {AnyMsg(CMD_STATEMENT_QUERY, StrField(1, q)) : q \in ClientSqls}

PlainCommands == {Utf8Encode(q) : q \in ClientSqls}

\* envelopes get_flight_info has no branch for, and malformed ones
OddCommands ==
    {AnyMsg(CMD_PREPARED_STATEMENT, StrField(1, S("h1"))),
     AnyMsg(CMD_PREPARED_STATEMENT, StrField(1, S(" FROM dictionary_test"))),
     AnyMsg(CMD_PREPARED_STATEMENT, InvalidUtf8),
     AnyMsg(CMD_STATEMENT_QUERY, <<>>),
     AnyMsg(CMD_STATEMENT_QUERY, <<10, 50>> \o SqlNumbers),
     AnyMsg(CMD_STATEMENT_QUERY, BytesField(1, InvalidUtf8)),
     AnyMsg(TYPE_URL_PREFIX \o S(".CommandFoo"), <<>>),
     AnyMsg(CMD_GET_DB_SCHEMAS, BytesField(1, InvalidUtf8)),
     InvalidUtf8,
     Utf8Encode(LitSelectStarFrom \o <<233>>)}

Commands == MetadataCommands \cup StatementCommands \cup PlainCommands \cup OddCommands

Tickets ==
    {TicketQuery \o Utf8Encode(q) : q \in ClientSqls}
    \cup {TicketDbSchemas \o Utf8Encode(f) : f \in CatalogFilters}
    \cup {TicketTables \o Utf8Encode(f) : f \in CatalogFilters}
    \cup {TicketCatalogs, TicketTableTypes}
    \cup {Utf8Encode(q) : q \in {SqlNumbers, SqlThreePart, SqlDictionary, SqlCreate}}
    \cup {InvalidUtf8, TicketQuery \o InvalidUtf8, TicketTables \o InvalidUtf8,
          TicketDbSchemas \o InvalidUtf8, S("CMD:GET_TABLES")}

-----------------------------------------------------------------------------
(* The server, one request at a time. *)

NoRequest == [op |-> "none", bytes |-> <<>>]

ServerInit ==
    /\ conn = InitialConn
    /\ \E ree \in ReeColumnTypes : arrow_tables = InitialArrowTables(ree)
    /\ request = NoRequest
    /\ response = NoInfo
    /\ executed = <<>>
    /\ planned = NoInfo
    /\ fetchOf = NoInfo

Serve(op, bytes, out) ==
    /\ request' = [op |-> op, bytes |-> bytes]
    /\ response' = out.resp
    /\ executed' = out.executed
    /\ conn' = out.conn
    /\ UNCHANGED arrow_tables

\* a client calls GetFlightInfo with a descriptor command
GetFlightInfoReq ==
    \E command \in Commands :
        \E out \in {GetFlightInfo(conn, arrow_tables, command)} :
            /\ Serve("GetFlightInfo", command, out)
            /\ planned' = IF out.resp.kind = "info" THEN out.resp ELSE NoInfo
            /\ fetchOf' = NoInfo
            /\ UNCHANGED <<thr, cpRequest, cpResponse, rwQuery, rwOnce, rwTwice, dec>>

\* a client calls DoGet with a ticket: any bytes, or the ticket just issued
DoGetReq ==
    \E ticket \in Tickets \cup {planned.ticket} :
        \E out \in {DoGet(conn, arrow_tables, ticket)} :
            /\ Serve("DoGet", ticket, out)
            /\ planned' = NoInfo
            /\ fetchOf' = IF planned.kind = "info" /\ planned.ticket = ticket
                          THEN planned ELSE NoInfo
            /\ UNCHANGED <<thr, cpRequest, cpResponse, rwQuery, rwOnce, rwTwice, dec>>

-----------------------------------------------------------------------------
(* _rewrite_query applied twice to queries built around one table reference. *)

MaxParts == 4

RefKeywords == {LitFROM, S("from"), LitJOIN}

RefSpaces == {S(" "), <<10, 9>>}

CatalogIdents == {LitTest, S("\"alt\"")}

SchemaIdents == {LitMain, S("\"main\"")}

TableIdents == {S("numbers"), S("\"t2\""), S("xfrom")}

\* the dotted references of 1..MaxParts identifiers, as identifier sequences
RECURSIVE RefParts(_)
RefParts(n) ==
    IF n = 1 THEN {<<tb>> : tb \in TableIdents}
    ELSE IF n = 2 THEN {<<sc, tb>> : sc \in SchemaIdents, tb \in TableIdents}
    ELSE IF n = 3
    THEN {<<ct, sc, tb>> : ct \in CatalogIdents, sc \in SchemaIdents,
                           tb \in TableIdents}
    ELSE {<<S("x")>> \o r : r \in RefParts(n - 1)}

RECURSIVE JoinDots(_)
JoinDots(parts) ==
    IF Len(parts) = 1 THEN parts[1]
    ELSE parts[1] \o LitDot \o JoinDots(Tail(parts))

QueryPrefixes == {LitEmpty, S("SELECT * ")}

QuerySuffixes ==
    {LitEmpty, S(";"), S(" WHERE id = 1"), S(" t CROSS JOIN alt.main.test_data u")}

RewriteInputs ==
    [prefix : QueryPrefixes, kw : RefKeywords, ws : RefSpaces,
     parts : UNION {RefParts(n) : n \in 1..MaxParts}, suffix : QuerySuffixes]

QueryText(in) ==
    in.prefix \o in.kw \o in.ws \o JoinDots(in.parts) \o in.suffix

Pending == <<-2>>

RewriteInit ==
    /\ rwQuery \in RewriteInputs
    /\ rwOnce = Pending
    /\ rwTwice = Pending

\* the rewrite GetFlightInfo applies to the client's query
RewriteFirst ==
    /\ rwOnce = Pending
    /\ rwOnce' = RewriteQuery(QueryText(rwQuery))
    /\ UNCHANGED <<rwQuery, rwTwice>>
    /\ UNCHANGED <<conn, arrow_tables, request, response, executed, planned,
                   fetchOf, thr, cpRequest, cpResponse, dec>>

\* the rewrite DoGet applies to the ticket's query
RewriteSecond ==
    /\ rwOnce # Pending
    /\ rwTwice = Pending
    /\ rwTwice' = RewriteQuery(rwOnce)
    /\ UNCHANGED <<rwQuery, rwOnce>>
    /\ UNCHANGED <<conn, arrow_tables, request, response, executed, planned,
                   fetchOf, thr, cpRequest, cpResponse, dec>>

-----------------------------------------------------------------------------
(* The mock control plane: ControlPlaneHandler.do_POST. *)

valid_tokens == {S("demo"), S("test-token"), S("valid-api-key")}

\* int(text) for a decimal numeral; -1 stands for ValueError
RECURSIVE ParseDigits(_, _)
ParseDigits(text, acc) ==
    IF text = <<>> THEN acc
    ELSE IF Head(text) \in 48..57
    THEN ParseDigits(Tail(text), acc * 10 + (Head(text) - 48))
    ELSE -1

ParseInt(text) == IF text = <<>> THEN -1 ELSE ParseDigits(text, 0)

\* str(n) for 0 <= n < 100
Dec(n) == IF n < 10 THEN <<48 + n>> ELSE <<48 + (n \div 10), 48 + (n % 10)>>

\* json.loads on the bodies the model's clients send: the kind of value, and
\* for an object its "database" member (None when it has none)
JsonBodies ==
    (S("{\"database\": \"db1\"}") :> [kind |-> "object", database |-> S("db1")])
    @@ (S("{\"database\": \"nonexistent_db\"}")
            :> [kind |-> "object", database |-> LitNonexistentDb])
    @@ (S("{\"database\": \"\"}") :> [kind |-> "object", database |-> LitEmpty])
    @@ (S("{}") :> [kind |-> "object", database |-> None])
    @@ (S("[]") :> [kind |-> "array", database |-> None])
    @@ (S("{\"database\": ") :> [kind |-> "JSONDecodeError", database |-> None])

JsonLookup(bodies, text) ==
    IF text \in DOMAIN bodies THEN bodies[text]
    ELSE [kind |-> "JSONDecodeError", database |-> None]

JsonLoads(text) == JsonLookup(JsonBodies, text)

HttpResponse(status, keys) == [status |-> status, keys |-> keys]

\* _send_error
SendError(status) == HttpResponse(status, {"error"})

\* an exception leaves the handler: http.server sends no response
NoResponse == HttpResponse(0, {})

\* dict.get(name, "") on the request headers
HeaderOr(headers, name, default) ==
    IF name \in DOMAIN headers THEN headers[name] ELSE default

(* _handle_create_session, check after check: the Authorization header,    *)
(* the Content-Length, the body's text, the parsed request.                 *)
CreateSession(parsed) ==
    IF parsed.kind = "JSONDecodeError" THEN SendError(400)
    ELSE IF parsed.kind # "object" THEN NoResponse
    ELSE IF parsed.database = None \/ parsed.database = <<>> THEN SendError(400)
    ELSE IF parsed.database = LitNonexistentDb THEN SendError(404)
    ELSE HttpResponse(200, {"flight_endpoint", "session_token", "expires_at"})

ParseBody(decoded) ==
    IF ~decoded[1] THEN SendError(400) ELSE CreateSession(JsonLoads(decoded[2]))

ReadBody(body, content_length) ==
    IF content_length < 0 THEN NoResponse
    ELSE IF content_length = 0 THEN SendError(400)
    ELSE ParseBody(Utf8Decode(Slice(body, 0, content_length)))

\* a token check that answers 401 for a token it does not know
CheckTokenUnauthorized(headers, body, auth_header) ==
    IF ~StartsWith(auth_header, LitBearer)
       \/ Slice(auth_header, 7, Len(auth_header)) \notin valid_tokens
    THEN SendError(401)
    ELSE ReadBody(body, ParseInt(HeaderOr(headers, "Content-Length", LitZero)))

CheckToken(headers, body, auth_header) ==
    IF ~StartsWith(auth_header, LitBearer) THEN SendError(401)
    ELSE IF Slice(auth_header, 7, Len(auth_header)) \notin valid_tokens
    THEN SendError(403)
    ELSE ReadBody(body, ParseInt(HeaderOr(headers, "Content-Length", LitZero)))

HandleCreateSession(headers, body) ==
    CheckToken(headers, body, HeaderOr(headers, "Authorization", LitEmpty))

\* do_POST
DoPost(path, headers, body) ==
    IF path = "/v1/session" THEN HandleCreateSession(headers, body)
    ELSE SendError(404)

AuthHeaders ==
    {S("Bearer demo"), S("Bearer test-token"), S("Bearer valid-api-key"),
     S("Bearer wrong"), LitBearer, S("Bearer  demo"), S("bearer demo"),
     S("Basic demo"), S("demo")}

PostBodies == DOMAIN JsonBodies \cup {LitEmpty, InvalidUtf8}

\* the header sets of the model's clients: Authorization present or not,
\* Content-Length absent, zero, the body's length, or not a number
PostHeaders(body) ==
    {a @@ l : a \in {<<>>} \cup {("Authorization" :> h) : h \in AuthHeaders},
              l \in {<<>>} \cup {("Content-Length" :> n) :
                                    n \in {LitZero, Dec(Len(body)), S("abc")}}}

PostPaths == {"/v1/session", "/v1/sessions"}

ControlPlaneInit ==
    /\ cpRequest = [path |-> "", headers |-> <<>>, body |-> <<>>]
    /\ cpResponse = NoResponse

\* a client sends one POST
Post ==
    \E path \in PostPaths, body \in PostBodies :
        \E headers \in PostHeaders(body) :
            /\ cpRequest' = [path |-> path, headers |-> headers, body |-> body]
            /\ cpResponse' = DoPost(path, headers, body)
            /\ UNCHANGED <<conn, arrow_tables, request, response, executed,
                           planned, fetchOf, thr, rwQuery, rwOnce, rwTwice,
                           dec>>

-----------------------------------------------------------------------------
(* Concurrent request handlers.  The Flight transport runs each RPC on its   *)
(* own thread; a handler is followed from one self.conn.execute call to the  *)
(* next.  No handler takes a lock around the shared connection.              *)

NumHandlers == 2

Handlers == 1..NumHandlers

ConcRequests ==
    {[op |-> "GetFlightInfo", bytes |-> Utf8Encode(q)] :
        q \in {SqlNumbers, SqlCreate, SqlDrop, SqlDictionary}}
    \cup {[op |-> "DoGet", bytes |-> b] :
        b \in {TicketQuery \o Utf8Encode(SqlNumbers), TicketTables,
               TicketCatalogs}}

Idle(outcome) ==
    [pc |-> "idle", req |-> NoRequest, stmt |-> <<>>, todo |-> <<>>,
     raced |-> FALSE, outcome |-> outcome]

ConcInit == thr = [t \in Handlers |-> Idle("none")]

\* the handler of req run on connection c with nothing else running
Handle(c, at, req) ==
    IF req.op = "GetFlightInfo" THEN GetFlightInfo(c, at, req.bytes)
    ELSE DoGet(c, at, req.bytes)

InExecute(t) == thr[t].pc = "in_execute"

\* every handler now inside self.conn.execute has overlapped with another
MarkRaced(th) ==
    [t \in Handlers |->
        IF th[t].pc = "in_execute"
           /\ \E u \in Handlers \ {t} : th[u].pc = "in_execute"
        THEN [th[t] EXCEPT !.raced = TRUE] ELSE th[t]]

\* a handler starts and runs up to its first self.conn.execute call, or to
\* its end when it makes none
ConcBegin(t) ==
    /\ thr[t].pc = "idle"
    /\ \E req \in ConcRequests :
        \E out \in {Handle(conn, arrow_tables, req)} :
            thr' = MarkRaced([thr EXCEPT ![t] =
                IF out.executed = <<>>
                THEN Idle(IF out.resp.kind = "error" THEN "raised" ELSE "returned")
                ELSE [pc |-> "in_execute", req |-> req,
                      stmt |-> Head(out.executed), todo |-> <<>>,
                      raced |-> FALSE, outcome |-> "none"]])
    /\ UNCHANGED <<conn, arrow_tables, request, response, executed, planned,
                   fetchOf, cpRequest, cpResponse, rwQuery, rwOnce, rwTwice,
                   dec>>

\* the tables the GetTables branch probes: those without a fixture
ToProbe(at, names) == SelectSeq(names, LAMBDA n : n \notin DOMAIN at)

\* what an execute call can give: its result on the connection as it is,
\* or, when it overlapped with another handler's call on the same
\* connection, a failure
ExecuteOutcomes(c, stmt, raced) ==
    {Execute(c, stmt)} \cup (IF raced THEN {ExecError(c)} ELSE {})

\* a handler's self.conn.execute call returns or raises; the handler runs on
\* to its next call (the GetTables branch) or to its end
ConcReturn(t) ==
    /\ InExecute(t)
    /\ \E r \in ExecuteOutcomes(conn, thr[t].stmt, thr[t].raced) :
        LET listing == thr[t].stmt = ListTablesSql
            todo == IF listing THEN ToProbe(arrow_tables, r.names)
                    ELSE thr[t].todo
        IN  /\ conn' = r.conn
            /\ thr' = MarkRaced([thr EXCEPT ![t] =
                    IF ~r.ok THEN Idle("raised")
                    ELSE IF todo = <<>> THEN Idle("returned")
                    ELSE [@ EXCEPT !.stmt = ProbeSql(Head(todo)),
                                   !.todo = Tail(todo)]])
    /\ UNCHANGED <<arrow_tables, request, response, executed, planned,
                   fetchOf, cpRequest, cpResponse, rwQuery, rwOnce, rwTwice,
                   dec>>

-----------------------------------------------------------------------------
(* The wire decoder step by step.  One call of _extract_inner_value or of   *)
(* _extract_string_field is followed from one iteration of its scanning     *)
(* loop to the next, and the _read_varint call inside an iteration from one *)
(* byte to the next.                                                        *)

MaxBuffer == 4

(* The bytes of the buffers: tags of field 1 and 2 with wire type 2 (10,    *)
(* 18), of field 1 with wire type 0 (8), of field 8 with wire type 1 (65,   *)
(* also the letter A); lengths 0 and 2; 128, a varint byte with the         *)
(* continuation bit and a byte that is no UTF-8 text.                       *)
WireBytes == {0, 2, 8, 10, 18, 65, 128}

Buffers == UNION {[1..n -> WireBytes] : n \in 0..MaxBuffer}

\* the two functions, with the field number their callers look for
DecodeCalls ==
    {[fn |-> "_extract_inner_value", target |-> 2],
     [fn |-> "_extract_string_field", target |-> 1]}

(* pc: "loop" at the while test, "varint" inside _read_varint, "field"      *)
(* after it returned, "done" after the function returned.  head is the read *)
(* index at the start of the iteration under way, from the index given to   *)
(* _read_varint.  raised is set when an exception leaves the function.      *)
DecodeStart(call, data) ==
    [fn |-> call.fn, target |-> call.target, data |-> data, pc |-> "loop",
     idx |-> 0, head |-> 0, tag |-> -1, from |-> 0, value |-> 0, shift |-> 0,
     result |-> <<>>, caught |-> FALSE, raised |-> FALSE]

DecodeIdle == dec = [DecodeStart([fn |-> "none", target |-> 0], <<>>) EXCEPT !.pc = "idle"]

DecodeInit ==
    dec \in {DecodeStart(call, data) : call \in DecodeCalls, data \in Buffers}

\* return b"" / return "" after the loop
ReturnAbsent(d) == [d EXCEPT !.pc = "done", !.result = <<>>]

(* tag = data[idx]; idx += 1; then the branch on the wire type: a varint is *)
(* read for wire types 2 and 0, any other wire type breaks out of the loop. *)
ReadTag(d, tag) ==
    IF tag % 8 = 2 \/ tag % 8 = 0
    THEN [d EXCEPT !.tag = tag, !.head = d.idx, !.idx = d.idx + 1,
                   !.pc = "varint", !.from = d.idx + 1, !.value = 0, !.shift = 0]
    ELSE ReturnAbsent([d EXCEPT !.tag = tag, !.head = d.idx, !.idx = d.idx + 1])

\* one iteration of the loop of _read_varint
VarintStep(d, byte) ==
    [d EXCEPT !.idx = d.idx + 1,
              !.value = d.value + (byte % 128) * Pow2(d.shift),
              !.shift = IF byte < 128 THEN d.shift ELSE d.shift + 7,
              !.pc = IF byte < 128 THEN "field" ELSE "varint"]

\* return field_value, decoded by _extract_string_field inside its try
ReturnField(d, field_value, decoded) ==
    IF d.fn = "_extract_inner_value"
    THEN [d EXCEPT !.pc = "done", !.result = field_value]
    ELSE [d EXCEPT !.pc = "done", !.result = DecodeOrEmpty(decoded),
                   !.caught = ~decoded[1]]

\* a scanner that takes the declared length as the next read index
AfterLengthAbsolute(d, length) ==
    IF d.tag \div 8 = d.target
    THEN ReturnField([d EXCEPT !.idx = length],
                     Slice(d.data, d.idx, d.idx + length),
                     Utf8Decode(Slice(d.data, d.idx, d.idx + length)))
    ELSE [d EXCEPT !.idx = length, !.pc = "loop"]

\* field_value = data[idx:idx+length]; idx += length; the field-number test
AfterLength(d, length) ==
    IF d.tag \div 8 = d.target
    THEN ReturnField([d EXCEPT !.idx = d.idx + length],
                     Slice(d.data, d.idx, d.idx + length),
                     Utf8Decode(Slice(d.data, d.idx, d.idx + length)))
    ELSE [d EXCEPT !.idx = d.idx + length, !.pc = "loop"]

\* the rest of the iteration once _read_varint has returned
AfterVarint(d) ==
    IF d.tag % 8 = 2 THEN AfterLength(d, d.value) ELSE [d EXCEPT !.pc = "loop"]

DecodeFrame ==
    UNCHANGED <<conn, arrow_tables, request, response, executed, planned,
                fetchOf, thr, cpRequest, cpResponse, rwQuery, rwOnce, rwTwice>>

\* while idx < len(data): the next tag
ScanTag ==
    /\ dec.pc = "loop"
    /\ dec.idx < Len(dec.data)
    /\ dec' = ReadTag(dec, dec.data[dec.idx + 1])
    /\ DecodeFrame

\* the while test fails: the function returns the absent value
ScanEnd ==
    /\ dec.pc = "loop"
    /\ dec.idx >= Len(dec.data)
    /\ dec' = ReturnAbsent(dec)
    /\ DecodeFrame

\* _read_varint: one more byte
VarintByte ==
    /\ dec.pc = "varint"
    /\ dec.idx < Len(dec.data)
    /\ dec' = VarintStep(dec, dec.data[dec.idx + 1])
    /\ DecodeFrame

\* _read_varint: the buffer ended inside the varint
VarintEnd ==
    /\ dec.pc = "varint"
    /\ dec.idx >= Len(dec.data)
    /\ dec' = [dec EXCEPT !.pc = "field"]
    /\ DecodeFrame

\* the field after its varint: returned, skipped, or a skipped varint field
ScanField ==
    /\ dec.pc = "field"
    /\ dec' = AfterVarint(dec)
    /\ DecodeFrame

-----------------------------------------------------------------------------
(* Specifications. *)

ServerIdle ==
    /\ conn = InitialConn
    /\ \E ree \in ReeColumnTypes : arrow_tables = InitialArrowTables(ree)
    /\ request = NoRequest
    /\ response = NoInfo
    /\ executed = <<>>
    /\ planned = NoInfo
    /\ fetchOf = NoInfo

RewriteIdle ==
    /\ rwQuery = [prefix |-> <<>>, kw |-> <<>>, ws |-> <<>>, parts |-> <<>>,
                  suffix |-> <<>>]
    /\ rwOnce = Pending
    /\ rwTwice = Pending

\* the server, serving one request at a time
Init == ServerInit /\ ConcInit /\ ControlPlaneInit /\ RewriteIdle
    /\ DecodeIdle

Next == GetFlightInfoReq \/ DoGetReq

Spec == Init /\ [][Next]_vars

\* the server, serving requests on concurrent threads
InitConc == ServerIdle /\ ConcInit /\ ControlPlaneInit /\ RewriteIdle
    /\ DecodeIdle

NextConc == \E t \in Handlers : ConcBegin(t) \/ ConcReturn(t)

SpecConc == InitConc /\ [][NextConc]_vars

\* _rewrite_query at plan time and again at fetch time
InitRewrite == ServerIdle /\ ConcInit /\ ControlPlaneInit /\ RewriteInit
    /\ DecodeIdle

NextRewrite == RewriteFirst \/ RewriteSecond

SpecRewrite == InitRewrite /\ [][NextRewrite]_vars

\* the mock control plane
InitControlPlane == ServerIdle /\ ConcInit /\ ControlPlaneInit /\ RewriteIdle
    /\ DecodeIdle

NextControlPlane == Post

SpecControlPlane == InitControlPlane /\ [][NextControlPlane]_vars

\* one call of a decoder function on one buffer
InitDecode == ServerIdle /\ ConcInit /\ ControlPlaneInit /\ RewriteIdle
    /\ DecodeInit

NextDecode == ScanTag \/ ScanEnd \/ VarintByte \/ VarintEnd \/ ScanField

SpecDecode == InitDecode /\ [][NextDecode]_vars

\* the same call, which the interpreter keeps running until it returns
SpecDecodeFair == SpecDecode /\ WF_vars(NextDecode)

-----------------------------------------------------------------------------
(* Properties of the one-request-at-a-time server (Spec).                   *)

DoGetOf(ticket) == request.op = "DoGet" /\ request.bytes = ticket

GetFlightInfoOf(command) == request.op = "GetFlightInfo" /\ request.bytes = command

KnownCatalogs == {LitTest, LitAlt}

ColumnNames(schema) == [k \in 1..Len(schema) |-> schema[k][1]]

\* the rows of a stream whose catalog_name is cat and whose table_name is n
RowsOf(cat, n) == {k \in 1..Len(response.rows) :
                      response.rows[k][1] = cat /\ response.rows[k][3] = n}

(* C1: DoGet on a GetTables ticket, T being the number of tables of the     *)
(* engine's main schema: without a catalog filter the stream has 2*T rows,  *)
(* every table once for 'test' and once for 'alt'; with the filter of a     *)
(* known catalog it has T rows, all of that catalog; with any other         *)
(* non-empty filter it has no row and the five columns catalog_name,        *)
(* db_schema_name, table_name, table_type, table_schema.                    *)
GetTablesRowCounts ==
    \A f \in CatalogFilters :
        DoGetOf(TicketTables \o Utf8Encode(f)) =>
            /\ response.kind = "stream"
            /\ response.num_rows = Len(response.rows)
            /\ ColumnNames(response.schema) =
                   <<"catalog_name", "db_schema_name", "table_name",
                     "table_type", "table_schema">>
            /\ IF f = <<>>
               THEN /\ response.num_rows = 2 * Len(conn)
                    /\ \A cat \in KnownCatalogs, k \in 1..Len(conn) :
                           Cardinality(RowsOf(cat, conn[k].name)) = 1
               ELSE IF f \in KnownCatalogs
               THEN /\ response.num_rows = Len(conn)
                    /\ \A k \in 1..Len(response.rows) : response.rows[k][1] = f
                    /\ \A k \in 1..Len(conn) : Cardinality(RowsOf(f, conn[k].name)) = 1
               ELSE response.num_rows = 0

\* an unfiltered GetTables listing served after a client created a table
GetTablesAfterCreate ==
    /\ DoGetOf(TicketTables)
    /\ Len(conn) = Len(InitialConn) + 1
    /\ response.num_rows = 2 * Len(conn)

(* C2: DoGet on the ticket CMD:GET_CATALOGS yields one row per synthetic    *)
(* catalog, the names 'test' and 'alt' that GetDbSchemas and GetTables      *)
(* list, whatever was served before.                                        *)
GetCatalogsListsCatalogs ==
    DoGetOf(TicketCatalogs) =>
        /\ response.kind = "stream"
        /\ response.rows = <<<<LitTest>>, <<LitAlt>>>>

(* C3: when GetFlightInfo returned a FlightInfo for a statement and the     *)
(* next request is DoGet on its QUERY: ticket, the stream has the           *)
(* FlightInfo's schema and as many rows as its total_records.               *)
FetchReproducesPlan ==
    (request.op = "DoGet" /\ fetchOf.kind = "info"
        /\ StartsWith(fetchOf.ticket, TicketQuery)) =>
        /\ response.kind = "stream"
        /\ response.schema = fetchOf.schema
        /\ response.num_rows = fetchOf.total_records

(* C4: the tables of the engine connection and the fixture map are in       *)
(* every reachable state what they were after startup.                      *)
RegistryNeverChanges ==
    /\ conn = InitialConn
    /\ \E ree \in ReeColumnTypes : arrow_tables = InitialArrowTables(ree)

(* C7: DoGet on a GetDbSchemas ticket returns (catalog, 'main') pairs: all  *)
(* catalogs without a filter, the one row of a known catalog or no row with *)
(* a filter; and the ticket GetFlightInfo issues carries the catalog of     *)
(* field 1 of the CommandGetDbSchemas message.                              *)
DbSchemasRows(f) ==
    IF f = <<>> THEN <<<<LitTest, LitMain>>, <<LitAlt, LitMain>>>>
    ELSE IF f \in KnownCatalogs THEN <<<<f, LitMain>>>>
    ELSE <<>>

GetDbSchemasFiltered ==
    \A f \in CatalogFilters :
        /\ GetFlightInfoOf(AnyMsg(CMD_GET_DB_SCHEMAS, CatalogPayload(f))) =>
               /\ response.kind = "info"
               /\ response.ticket = TicketDbSchemas \o Utf8Encode(f)
        /\ DoGetOf(TicketDbSchemas \o Utf8Encode(f)) =>
               /\ response.kind = "stream"
               /\ response.rows = DbSchemasRows(f)
               /\ response.num_rows = Len(response.rows)
               /\ ColumnNames(response.schema) = <<"catalog_name", "db_schema_name">>

\* the ticket GetFlightInfo issued for the filter 'alt' was fetched
GetDbSchemasOfAltFetched ==
    /\ DoGetOf(TicketDbSchemas \o Utf8Encode(LitAlt))
    /\ fetchOf.kind = "info"
    /\ response.rows = <<<<LitAlt, LitMain>>>>

LitDictionaryTest == S("dictionary_test")

LitRunEndTest == S("run_end_test")

\* the client statements whose first FROM names a fixture table, and the
\* fixture's row count
FixtureRows == (SqlDictionary :> 5) @@ (SqlRunEnd :> 6)

FixtureOf == (SqlDictionary :> LitDictionaryTest) @@ (SqlRunEnd :> LitRunEndTest)

\* the two ways a client sends a statement to GetFlightInfo
CommandsOf(q) == {Utf8Encode(q), AnyMsg(CMD_STATEMENT_QUERY, StrField(1, q))}

MentionsFixture(q) == Contains(q, LitDictionaryTest) \/ Contains(q, LitRunEndTest)

TakenAsSqlText ==
    \/ executed # <<>> /\ Utf8Encode(executed[1]) = request.bytes
    \/ response.kind = "info" /\ response.ticket = TicketQuery \o request.bytes

HasTypeUrlPrefix(buffer) == Contains(buffer, TYPE_URL_PREFIX)

(* C10, as stated: a buffer in which the type URL prefix occurs is never    *)
(* taken as SQL text.                                                       *)
RecognizedNeverSqlText ==
    (request.op = "GetFlightInfo" /\ HasTypeUrlPrefix(request.bytes)) =>
        ~TakenAsSqlText

\* the envelopes no branch of get_flight_info answers
UnansweredEnvelopes ==
    {AnyMsg(CMD_PREPARED_STATEMENT, StrField(1, S("h1"))),
     AnyMsg(CMD_PREPARED_STATEMENT, StrField(1, S(" FROM dictionary_test"))),
     AnyMsg(CMD_STATEMENT_QUERY, <<>>),
     AnyMsg(TYPE_URL_PREFIX \o S(".CommandFoo"), <<>>)}

\* the buffers that are not UTF-8 and reach the tail of get_flight_info
UndecodableBuffers ==
    {InvalidUtf8, AnyMsg(CMD_PREPARED_STATEMENT, InvalidUtf8),
     AnyMsg(CMD_STATEMENT_QUERY, BytesField(1, InvalidUtf8))}

(* C10: get_flight_info takes the whole buffer as SQL text when the type    *)
(* URL prefix does not occur in it, and also when it occurs but no branch   *)
(* answers: a CommandPreparedStatementQuery, an unknown type URL, a         *)
(* CommandStatementQuery without a query.  The metadata commands and a      *)
(* CommandStatementQuery with a query are never taken as SQL text.  A       *)
(* buffer that reaches the tail and is not UTF-8 fails with 'Unknown        *)
(* command format', and nothing is executed.                                *)
RawSqlOnlyWithoutBranch ==
    request.op = "GetFlightInfo" =>
        /\ request.bytes \in MetadataCommands \cup StatementCommands =>
               ~TakenAsSqlText
        /\ request.bytes \in UnansweredEnvelopes => TakenAsSqlText
        /\ request.bytes \in UndecodableBuffers =>
               /\ response.kind = "error"
               /\ response.error = "Unknown command format"
               /\ executed = <<>>
        /\ (TakenAsSqlText /\ HasTypeUrlPrefix(request.bytes)) =>
               request.bytes \in UnansweredEnvelopes
        /\ response.error = "Unknown command format" => executed = <<>>

\* a prepared-statement envelope was passed to the engine as SQL text
EnvelopeExecutedAsSql ==
    /\ GetFlightInfoOf(AnyMsg(CMD_PREPARED_STATEMENT, StrField(1, S("h1"))))
    /\ executed # <<>>
    /\ Utf8Encode(executed[1]) = request.bytes
    /\ response.error = "Failed to prepare query"

\* a statement the engine rejects whatever tables clients created
RejectedSqls == {SqlMissing}

(* C11: when the engine rejects the statement during GetFlightInfo, the     *)
(* request ends with the 'Failed to prepare query' error, the response      *)
(* holds no FlightInfo and no ticket, and the statement was passed to the   *)
(* engine once.                                                             *)
FailedPrepareNotRetried ==
    request.op = "GetFlightInfo" =>
        /\ (executed # <<>> /\ response.kind # "info") =>
               /\ response.kind = "error"
               /\ response.error = "Failed to prepare query"
               /\ response.ticket = <<>>
               /\ response.total_records = -1
               /\ Len(executed) = 1
        /\ response.error = "Failed to prepare query" =>
               /\ Len(executed) = 1
               /\ planned = NoInfo
        /\ \A q \in RejectedSqls :
               request.bytes \in CommandsOf(q) =>
                   /\ response.error = "Failed to prepare query"
                   /\ executed = <<RewriteQuery(q)>>

\* a second CREATE of the same table was rejected by the engine
SecondCreateRejected ==
    /\ GetFlightInfoOf(Utf8Encode(SqlCreate))
    /\ response.error = "Failed to prepare query"
    /\ executed = <<SqlCreate>>
    /\ Len(conn) = Len(InitialConn) + 1

(* C12: the text a handler passes to the engine for a client query is the  *)
(* query after _rewrite_query, on each of the four paths: GetFlightInfo     *)
(* with a CommandStatementQuery or a raw string, DoGet with a QUERY:        *)
(* ticket, DoGet with a ticket of no known prefix.                          *)
EngineGetsRewrittenText ==
    \A q \in ClientSqls :
        ((request.op = "GetFlightInfo" /\ request.bytes \in CommandsOf(q))
            \/ DoGetOf(TicketQuery \o Utf8Encode(q))
            \/ DoGetOf(Utf8Encode(q))) =>
            (executed # <<>> => executed = <<RewriteQuery(q)>>)

\* DoGet is fetching the ticket GetFlightInfo just issued for a metadata command
MetadataFetch ==
    /\ request.op = "DoGet"
    /\ fetchOf.kind = "info"
    /\ ~StartsWith(fetchOf.ticket, TicketQuery)

(* C14: the stream DoGet returns for the ticket of a metadata command has   *)
(* the column names and types of the schema in the FlightInfo, for every    *)
(* catalog filter, a filter that matches no catalog included.               *)
MetadataStreamKeepsSchema ==
    MetadataFetch =>
        /\ response.kind = "stream"
        /\ response.schema = fetchOf.schema

-----------------------------------------------------------------------------
(* Properties of the concurrent handlers (SpecConc).                        *)

(* C5: at no time are two handlers inside a statement execution on the      *)
(* shared connection.                                                       *)
ExecutionSerialized ==
    \A t, u \in Handlers : (InExecute(t) /\ InExecute(u)) => t = u

-----------------------------------------------------------------------------
(* Properties of _rewrite_query (SpecRewrite).                              *)

ThreePartInput == Len(rwQuery.parts) = 3

TwoPartForm == rwQuery.parts[2] \o LitDot \o rwQuery.parts[3]

(* C6: for a three-part reference after FROM or JOIN, with quoted or bare   *)
(* identifiers, one application of _rewrite_query gives the two-part form   *)
(* schema.table, and a second application returns the same text.            *)
RewriteIdempotent ==
    ThreePartInput =>
        /\ rwOnce # Pending =>
               /\ Contains(rwOnce, S(" ") \o TwoPartForm \o rwQuery.suffix)
                  \/ Contains(rwOnce, S(" ") \o TwoPartForm \o S(" t CROSS FROM"))
               /\ ~Contains(rwOnce, JoinDots(rwQuery.parts))
        /\ rwTwice # Pending => rwTwice = rwOnce

\* a quoted three-part reference after JOIN was rewritten twice
QuotedJoinRewrittenTwice ==
    /\ rwQuery.kw = LitJOIN
    /\ rwQuery.parts = <<S("\"alt\""), S("\"main\""), S("\"t2\"")>>
    /\ rwTwice # Pending
    /\ rwTwice = rwOnce
    /\ rwOnce # QueryText(rwQuery)

\* the reference of the input with the catalog of a three-part name dropped
CatalogDropped(parts) ==
    IF Len(parts) = 3 THEN parts[2] \o LitDot \o parts[3] ELSE JoinDots(parts)

\* the same for the three-part reference of the joining suffix
SuffixCatalogDropped(suffix) ==
    IF suffix = S(" t CROSS JOIN alt.main.test_data u")
    THEN S(" t CROSS JOIN main.test_data u")
    ELSE suffix

(* C13: _rewrite_query drops the catalog and its dot from each three-part   *)
(* reference after FROM or JOIN and changes nothing else: the keyword, the  *)
(* whitespace after it, the schema and the table, and the rest of the query *)
(* stay as they were; a query without such a reference is returned as is.   *)
RewriteOnlyDropsCatalog ==
    (rwOnce # Pending /\ Len(rwQuery.parts) <= 3) =>
        rwOnce = rwQuery.prefix \o rwQuery.kw \o rwQuery.ws
                 \o CatalogDropped(rwQuery.parts)
                 \o SuffixCatalogDropped(rwQuery.suffix)

-----------------------------------------------------------------------------
(* Properties of the wire decoder (SpecDecode, SpecDecodeFair).             *)

\* the 1-based position of the byte that ends the varint starting at 0-based
\* index i, 0 when the buffer ends before any byte without continuation bit
VarintLast(data, i) ==
    IF \E j \in (i + 1)..Len(data) : data[j] < 128
    THEN CHOOSE j \in (i + 1)..Len(data) :
            data[j] < 128 /\ \A k \in (i + 1)..(j - 1) : data[k] >= 128
    ELSE 0

\* what a function returns for the bytes of the field it looked for
FieldValue(fn, payload) ==
    IF fn = "_extract_inner_value" THEN payload
    ELSE IF Utf8Decode(payload)[1] THEN Utf8Decode(payload)[2]
    ELSE <<>>

(* The first length-delimited field numbered target of a buffer read from   *)
(* index i, and the absent value when the fields up to it are malformed: a  *)
(* varint the buffer cuts short, a length that reaches beyond the buffer, a *)
(* wire type other than 0 and 2.                                            *)
RECURSIVE FirstField(_, _, _, _)
FirstField(fn, target, data, i) ==
    IF i >= Len(data) THEN <<>>
    ELSE LET tag    == data[i + 1]
             last   == VarintLast(data, i + 1)
             length == ReadVarint(data, i + 1)[1]
         IN  IF tag % 8 \notin {0, 2} \/ last = 0 THEN <<>>
             ELSE IF tag % 8 = 0 THEN FirstField(fn, target, data, last)
             ELSE IF last + length > Len(data) THEN <<>>
             ELSE IF tag \div 8 = target
             THEN FieldValue(fn, SubSeq(data, last + 1, last + length))
             ELSE FirstField(fn, target, data, last + length)

(* C15: _extract_inner_value and _extract_string_field raise for no buffer; *)
(* they return the bytes, respectively the text, of the first occurrence of *)
(* the wanted field of a well-formed buffer, and the absent value for a     *)
(* truncated field, a length beyond the end of the buffer, an unsupported   *)
(* wire type, and field bytes that are not UTF-8.                           *)
DecodeFirstFieldOrAbsent ==
    dec.pc = "done" =>
        /\ ~dec.raised
        /\ dec.result = FirstField(dec.fn, dec.target, dec.data, 0)

(* _read_varint has returned: the index is not below the one it was given  *)
(* and not beyond the buffer, every byte it passed over but the last has    *)
(* the continuation bit, and it stopped at a byte without that bit or at    *)
(* the end of the buffer.                                                   *)
VarintStops ==
    dec.pc = "field" =>
        /\ dec.from <= dec.idx
        /\ dec.idx <= Len(dec.data)
        /\ \A k \in (dec.from + 1)..(dec.idx - 1) : dec.data[k] >= 128
        /\ \/ dec.idx > dec.from /\ dec.data[dec.idx] < 128
           \/ dec.idx = Len(dec.data)
              /\ \A k \in (dec.from + 1)..dec.idx : dec.data[k] >= 128

\* an iteration of the scanning loop is over: the read index has grown
IterationAdvances ==
    (dec.pc \in {"loop", "done"} /\ dec.tag # -1) => dec.idx > dec.head

\* no step of the decoder moves the read index back
IndexNeverDecreases == [][dec'.idx >= dec.idx]_vars

DecoderReturns == <>(dec.pc = "done")

(* C16: decoding ends on every buffer.  _read_varint stops at the first     *)
(* byte without continuation bit or at the end of the buffer, with an index *)
(* between the one given and the buffer length; every iteration of the      *)
(* scanning loops increases the read index; the function returns, also for  *)
(* an unterminated varint and for a length of zero or beyond the buffer.    *)
DecodingTerminates ==
    /\ []VarintStops
    /\ []IterationAdvances
    /\ IndexNeverDecreases
    /\ DecoderReturns

\* a call returned after a field of length zero and an unterminated varint
ReturnedAfterUnterminatedVarint ==
    /\ dec.pc = "done"
    /\ dec.fn = "_extract_inner_value"
    /\ dec.data = <<10, 0, 8, 128>>
    /\ dec.idx = Len(dec.data)

-----------------------------------------------------------------------------
(* Properties of the mock control plane (SpecControlPlane).                 *)

SessionPost == cpRequest.path = "/v1/session"

AuthorizationOf(headers) ==
    IF "Authorization" \in DOMAIN headers THEN headers["Authorization"] ELSE <<>>

BearerHeader == StartsWith(AuthorizationOf(cpRequest.headers), LitBearer)

\* the token after "Bearer "
BearerToken ==
    SubSeq(AuthorizationOf(cpRequest.headers), 8,
           Len(AuthorizationOf(cpRequest.headers)))

InvalidBearerToken ==
    BearerHeader /\ BearerToken \notin {S("demo"), S("test-token"), S("valid-api-key")}

\* no body announced: Content-Length absent or 0
MissingBody ==
    \/ "Content-Length" \notin DOMAIN cpRequest.headers
    \/ cpRequest.headers["Content-Length"] = LitZero

SessionCreated ==
    cpResponse.status = 200 \/ "session_token" \in cpResponse.keys

(* C8, as stated: an invalid bearer token is answered 401, a missing body   *)
(* 400, and neither creates a session.                                      *)
InvalidToken401MissingBody400 ==
    SessionPost =>
        /\ InvalidBearerToken => cpResponse.status = 401
        /\ (MissingBody /\ ~InvalidBearerToken /\ BearerHeader) =>
               cpResponse.status = 400
        /\ (InvalidBearerToken \/ MissingBody) => ~SessionCreated

(* C8: a POST /v1/session without an Authorization header that starts with  *)
(* "Bearer " is answered 401; one whose bearer token is not a valid token   *)
(* is answered 403; one with a valid token and no body is answered 400; in  *)
(* none of these cases is a session created.                                *)
RejectedWithoutSession ==
    SessionPost =>
        /\ ~BearerHeader => cpResponse.status = 401
        /\ InvalidBearerToken => cpResponse.status = 403
        /\ (BearerHeader /\ ~InvalidBearerToken /\ MissingBody) =>
               cpResponse.status = 400
        /\ (~BearerHeader \/ InvalidBearerToken \/ MissingBody) => ~SessionCreated

\* an unknown bearer token was refused, and so was a valid one without body
InvalidTokenRefused ==
    /\ SessionPost
    /\ InvalidBearerToken
    /\ cpRequest.body # <<>>
    /\ cpResponse.status = 403

=============================================================================
